---- MODULE Spec2Model ----
(***************************************************************************)
(* Model of music-library-tools: the album-art pipeline of                 *)
(* shrink-flac-embedded-art.py (main, process_album_directory and the      *)
(* tool wrappers it calls) and the embedding pass of embed-art.py.         *)
(*                                                                         *)
(* The external tools (metaflac, identify, convert) are the environment:   *)
(* each call nondeterministically succeeds or fails the way the wrapper    *)
(* distinguishes (exit status, output, exception).                         *)
(***************************************************************************)
EXTENDS Integers, Sequences, FiniteSets, TLC

(* ---------------------------- bounds ---------------------------------- *)
NumAlbums == 2
MaxTracks == 2
MaxRuns == 2
\* tool calls that may fail in one behaviour
MaxFaults == 2

(* ---------------------- program constants ----------------------------- *)
\* size=150 of resize_to_baseline_jpeg and the "max_dim <= 150" test
PolicyBound == 150

(* ------------------------------ data ---------------------------------- *)
NoArt == [w |-> 0, h |-> 0, il |-> "absent"]
NoFile == [w |-> 0, h |-> 0, il |-> "nofile"]

\* Pictures a track may carry: width, height and the "Interlace:" line that
\* identify -verbose prints for them.
Compliant == [w |-> 150, h |-> 120, il |-> "None"]
Oversized == [w |-> 120, h |-> 151, il |-> "None"]
Progressive == [w |-> 100, h |-> 100, il |-> "JPEG"]

Images == {Compliant, Oversized, Progressive}

Arts == Images \cup {NoArt}

\* Letter-casings of the extension that the scan of main finds.
Exts == {"flac", "FLAC", "Flac"}

\* The tracks of the initial directory: every casing of the extension and
\* every kind of art occurs, not every combination of the two.
Tracks ==
    [ext : {"flac"}, art : {NoArt, Compliant, Progressive}]
        \cup [ext : {"FLAC", "Flac"}, art : {Oversized}]

Albums == 1..NumAlbums

Max(a, b) == IF a >= b THEN a ELSE b

(* ------------------------------ state --------------------------------- *)
VARIABLES
    lib,              \* the music directory: album -> sequence of tracks
    orig,             \* lib as it was when the run started
    settled,          \* albums whose latest pass found or made them compliant
    run,              \* number of the current execution of the script
    faults,           \* tool failures so far in this execution
    pc,               \* position in main / process_album_directory
    dry_run,          \* main: answer to the first prompt
    phase,            \* "first": loop of main 299-312; "commit": loop 336-343
    idx,              \* main: position in sorted(album_dirs)
    flac_files,       \* process_album_directory: indices of the globbed tracks
    t,                \* position of the for loop 231 in flac_files
    temp_dir,         \* the mkdtemp directory exists
    extracted_path,   \* content of <temp_dir>/extracted, NoFile when absent
    resized_path,     \* content of <temp_dir>/resized.jpg, NoFile when absent
    dimensions,       \* result of get_image_dimensions: <<>> is None
    interlace_seen,   \* what is_baseline_jpeg read from identify -verbose
    decision,         \* the branch taken by lines 193-214
    processed,
    errors,
    ret,              \* pending outcome of process_album_directory
    total_processed,
    total_skipped,
    total_errors,
    summary,          \* the totals printed by lines 320-322, << >> before
    leftovers,        \* kinds of temporary files that finished albums left
    calls,            \* mutating tool calls issued for the current album
    \* ---- embed-art.py ----
    cover,            \* album -> kind of the first cover candidate that exists
    ea_pc,            \* position in main / process_album_directory / embed_cover
    ea_idx,           \* main: position in sorted(album_dirs)
    ea_flac_files,    \* process_album_directory: the globbed tracks
    ea_k,             \* position of the running for loop (142 or 173)
    flacs_without_art,
    baseline_cover,   \* embed_cover: "cover" (cover_path itself) or "temp"
    temp_files,       \* number of mkstemp files that exist
    embedded,         \* embed_cover: outcome of the import, "" before it
    log_file          \* the lines written to missing_album_art.log

vars == << lib, orig, settled, run, faults, pc, dry_run, phase, idx, flac_files, t, temp_dir,
           extracted_path, resized_path, dimensions, interlace_seen,
           decision, processed, errors, ret, total_processed, total_skipped,
           total_errors, summary, leftovers, calls, cover, ea_pc, ea_idx,
           ea_flac_files, ea_k, flacs_without_art, baseline_cover,
           temp_files, embedded, log_file >>

\* the state of embed-art.py
eavars == << cover, ea_pc, ea_idx, ea_flac_files, ea_k, flacs_without_art,
            baseline_cover, temp_files, embedded, log_file >>

locals == << flac_files, t, temp_dir, extracted_path, resized_path,
             dimensions, interlace_seen, decision, processed, errors >>
totals == << total_processed, total_skipped, total_errors >>
mainvars == << run, dry_run, phase, idx >>

(* ----------------------------- helpers -------------------------------- *)
NoRet == [kind |-> "none", p |-> 0, s |-> 0, e |-> 0]
Return(p, s, e) == [kind |-> "return", p |-> p, s |-> s, e |-> e]
Raise == [kind |-> "raise", p |-> 0, s |-> 0, e |-> 0]

RECURSIVE SelectIdx(_, _, _)
\* indices i >= from of seq whose extension is ext, in directory order
SelectIdx(seq, ext, from) ==
    IF from > Len(seq) THEN << >>
    ELSE IF seq[from].ext = ext
         THEN << from >> \o SelectIdx(seq, ext, from + 1)
         ELSE SelectIdx(seq, ext, from + 1)

\* list(album_dir.glob("*.flac")) + list(album_dir.glob("*.FLAC"))
GlobFlac(album) ==
    SelectIdx(lib[album], "flac", 1) \o SelectIdx(lib[album], "FLAC", 1)

\* process_album_directory(album_dir, dry_run) is called with main's dry_run
\* in the first loop and with dry_run=False in the loop after the summary
DryRunParam == dry_run /\ phase = "first"

\* identify -format "%w %h"
Dims(img) == << img.w, img.h >>

\* "Interlace: None" in result.stdout
IsBaselineOutput(img) == img.il = "None"

\* convert -resize 150x150 -quality 85 -interlace none: the picture is scaled
\* (rounded to the nearest pixel, at least 1) so that its larger side is the
\* bound, and written non-interlaced
Scale(x, m) ==
    LET r == (2 * x * PolicyBound + m) \div (2 * m) IN IF r < 1 THEN 1 ELSE r
\* ResizeToBaseline without "-interlace none": the layout is kept
ResizeToBaseline_KeepsInterlace(img) ==
    [w |-> Scale(img.w, Max(img.w, img.h)),
     h |-> Scale(img.h, Max(img.w, img.h)),
     il |-> img.il]
ResizeToBaseline(img) ==
    [w |-> Scale(img.w, Max(img.w, img.h)),
     h |-> Scale(img.h, Max(img.w, img.h)),
     il |-> "None"]

Call(op, track, img, ok) == [op |-> op, track |-> track, img |-> img, ok |-> ok]

\* one more tool call fails
Fault ==
    /\ faults < MaxFaults
    /\ faults' = faults + 1

\* Proceed with the dry-run test of line 216 left out
Proceed_IgnoresDryRun ==
    /\ pc' = "resize"
    /\ UNCHANGED ret

\* line 216-220 after the classification decided to normalize
Proceed ==
    IF DryRunParam
    THEN /\ ret' = Return(Len(flac_files), 0, 0)
         /\ pc' = "finally"
    ELSE /\ pc' = "resize"
         /\ UNCHANGED ret

(* ------------------------------ Init ---------------------------------- *)
AlbumContents == UNION { [1..n -> Tracks] : n \in 1..MaxTracks }

\* embed-art.py main 185-203: nothing processed, the log holds its header
EmbedArtStart ==
    /\ ea_pc = "loop"
    /\ ea_idx = 1
    /\ ea_flac_files = << >>
    /\ ea_k = 1
    /\ flacs_without_art = << >>
    /\ baseline_cover = "cover"
    /\ temp_files = 0
    /\ embedded = ""
    /\ log_file = << >>

\* shrink-flac-embedded-art.py main 264-285: the scan found the tracks
ShrinkStart ==
    /\ orig = lib
    /\ settled = {}
    /\ run = 1
    /\ faults = 0
    /\ pc = "prompt"
    /\ dry_run = FALSE
    /\ phase = "first"
    /\ idx = 1
    /\ flac_files = << >>
    /\ t = 1
    /\ temp_dir = FALSE
    /\ extracted_path = NoFile
    /\ resized_path = NoFile
    /\ dimensions = << >>
    /\ interlace_seen = "notrun"
    /\ decision = "none"
    /\ processed = 0
    /\ errors = 0
    /\ ret = NoRet
    /\ total_processed = 0
    /\ total_skipped = 0
    /\ total_errors = 0
    /\ summary = << >>
    /\ leftovers = {}
    /\ calls = << >>

Init ==
    /\ lib \in [Albums -> AlbumContents]
    /\ ShrinkStart
    /\ cover = [a \in Albums |-> "none"]
    /\ EmbedArtStart

(* --------------------------- main: prompt ----------------------------- *)
\* main 287-297
AnswerDryRunPrompt ==
    /\ pc = "prompt"
    /\ \E answer \in BOOLEAN : dry_run' = answer
    /\ phase' = "first"
    /\ idx' = 1
    /\ total_processed' = 0
    /\ total_skipped' = 0
    /\ total_errors' = 0
    /\ pc' = "loop"
    /\ UNCHANGED << eavars, faults, lib, orig, settled, run, locals, ret,
                    summary, leftovers, calls >>

(* ------------------ process_album_directory: entry -------------------- *)
\* main 299-304 and process_album_directory 178-189, tracks found
EnterAlbum ==
    /\ pc = "loop"
    /\ idx <= NumAlbums
    /\ GlobFlac(idx) # << >>
    /\ flac_files' = GlobFlac(idx)
    /\ temp_dir' = TRUE
    /\ pc' = "extract"
    /\ UNCHANGED << eavars, faults, lib, orig, settled, mainvars, t,
                    extracted_path, resized_path, dimensions, interlace_seen,
                    decision, processed, errors, ret, totals, summary,
                    leftovers, calls >>

\* process_album_directory 183-184: "if not flac_files: return (0, 0, 0)"
EnterAlbumNoFiles ==
    /\ pc = "loop"
    /\ idx <= NumAlbums
    /\ GlobFlac(idx) = << >>
    /\ flac_files' = << >>
    /\ ret' = Return(0, 0, 0)
    /\ pc' = "tally"
    /\ UNCHANGED << eavars, faults, lib, orig, settled, mainvars, t, temp_dir,
                    extracted_path, resized_path, dimensions, interlace_seen,
                    decision, processed, errors, totals, summary, leftovers,
                    calls >>

(* ---------------- process_album_directory: classify ------------------- *)
\* 193 with extract_embedded_art returning True: metaflac wrote the picture
ExtractOk ==
    /\ pc = "extract"
    /\ lib[idx][flac_files[1]].art # NoArt
    /\ extracted_path' = lib[idx][flac_files[1]].art
    /\ pc' = "dimensions"
    /\ UNCHANGED << eavars, faults, lib, orig, settled, mainvars, flac_files,
                    t, temp_dir, resized_path, dimensions, interlace_seen,
                    decision, processed, errors, ret, totals, summary,
                    leftovers, calls >>

\* 193-195 with extract_embedded_art returning False: the first track has no
\* picture block, metaflac exits nonzero
ExtractNoPicture ==
    /\ pc = "extract"
    /\ lib[idx][flac_files[1]].art = NoArt
    /\ decision' = "skip_noart"
    /\ ret' = Return(0, Len(flac_files), 0)
    /\ pc' = "finally"
    /\ UNCHANGED << eavars, faults, lib, orig, settled, mainvars, flac_files,
                    t, temp_dir, extracted_path, resized_path, dimensions,
                    interlace_seen, processed, errors, totals, summary,
                    leftovers, calls >>

\* ExtractFails counting the tracks as errors instead of skipping them
ExtractFails_CountsErrors ==
    /\ Fault
    /\ pc = "extract"
    /\ lib[idx][flac_files[1]].art # NoArt
    /\ decision' = "skip_noart"
    /\ ret' = Return(0, 0, Len(flac_files))
    /\ pc' = "finally"
    /\ UNCHANGED << eavars, lib, orig, settled, mainvars, flac_files, t,
                    temp_dir, extracted_path, resized_path, dimensions,
                    interlace_seen, processed, errors, totals, summary,
                    leftovers, calls >>

\* 193-195 with extract_embedded_art returning False: metaflac failed on a
\* track that has a picture
ExtractFails ==
    /\ Fault
    /\ pc = "extract"
    /\ lib[idx][flac_files[1]].art # NoArt
    /\ decision' = "skip_noart"
    /\ ret' = Return(0, Len(flac_files), 0)
    /\ pc' = "finally"
    /\ UNCHANGED << eavars, lib, orig, settled, mainvars, flac_files, t,
                    temp_dir, extracted_path, resized_path, dimensions,
                    interlace_seen, processed, errors, totals, summary,
                    leftovers, calls >>

\* 198-204, 211-212: identify printed the dimensions
DimensionsKnown ==
    /\ pc = "dimensions"
    /\ dimensions' = Dims(extracted_path)
    /\ IF Max(dimensions'[1], dimensions'[2]) <= PolicyBound
       THEN /\ pc' = "baseline"
            /\ UNCHANGED << decision, ret >>
       ELSE /\ decision' = "normalize"
            /\ Proceed
    /\ UNCHANGED << eavars, faults, lib, orig, settled, mainvars, flac_files,
                    t, temp_dir, extracted_path, resized_path, interlace_seen,
                    processed, errors, totals, summary, leftovers, calls >>

\* 49-51, 213-214: identify failed or printed something else, result None
DimensionsUnknown ==
    /\ Fault
    /\ pc = "dimensions"
    /\ dimensions' = << >>
    /\ decision' = "normalize"
    /\ Proceed
    /\ UNCHANGED << eavars, lib, orig, settled, mainvars, flac_files, t,
                    temp_dir, extracted_path, resized_path, interlace_seen,
                    processed, errors, totals, summary, leftovers, calls >>

\* 41-46: subprocess.run raises something that line 49 does not catch
\* (FileNotFoundError: identify is not among the tools checked at 349-363)
DimensionsRaises ==
    /\ Fault
    /\ pc = "dimensions"
    /\ ret' = Raise
    /\ pc' = "finally"
    /\ UNCHANGED << eavars, lib, orig, settled, mainvars, flac_files, t,
                    temp_dir, extracted_path, resized_path, dimensions,
                    interlace_seen, decision, processed, errors, totals,
                    summary, leftovers, calls >>

\* IsBaseline answering True unless the output names a progressive layout
IsBaseline_UnlessProgressive(seen) == seen \notin {"JPEG", "Line"}

\* what is_baseline_jpeg returns for what identify -verbose showed (71-79)
IsBaseline(seen) == seen = "None"

\* 205-210 after is_baseline_jpeg returned on output `seen`
BaselineDecided(seen) ==
    /\ interlace_seen' = seen
    /\ IF IsBaseline(seen)
       THEN /\ decision' = "skip_compliant"
            /\ ret' = Return(0, Len(flac_files), 0)
            /\ pc' = "finally"
       ELSE /\ decision' = "normalize"
            /\ Proceed
    /\ UNCHANGED << eavars, lib, orig, settled, mainvars, flac_files, t,
                    temp_dir, extracted_path, resized_path, dimensions,
                    processed, errors, totals, summary, leftovers, calls >>

\* 64-76: identify -verbose ran and printed the picture's Interlace line
BaselineChecked ==
    /\ pc = "baseline"
    /\ UNCHANGED << eavars, faults >>
    /\ BaselineDecided(extracted_path.il)

\* 77-79: identify -verbose failed, is_baseline_jpeg returns False
BaselineCheckFails ==
    /\ pc = "baseline"
    /\ Fault
    /\ UNCHANGED eavars
    /\ BaselineDecided("error")

(* ---------------- process_album_directory: normalize ------------------ *)
\* 223, 228-229: convert wrote resized.jpg
ResizeOk ==
    /\ pc = "resize"
    /\ resized_path' = ResizeToBaseline(extracted_path)
    /\ calls' = Append(calls, Call("resize", 0, extracted_path, TRUE))
    /\ processed' = 0
    /\ errors' = 0
    /\ t' = 1
    /\ pc' = "remove"
    /\ UNCHANGED << eavars, faults, lib, orig, settled, mainvars, flac_files,
                    temp_dir, extracted_path, dimensions, interlace_seen,
                    decision, ret, totals, summary, leftovers >>

\* ResizeFails without the return of line 225
ResizeFails_GoesOn ==
    /\ Fault
    /\ pc = "resize"
    /\ calls' = Append(calls, Call("resize", 0, extracted_path, FALSE))
    /\ processed' = 0
    /\ errors' = 0
    /\ t' = 1
    /\ pc' = "remove"
    /\ UNCHANGED << eavars, lib, orig, settled, mainvars, flac_files,
                    temp_dir, extracted_path, resized_path, dimensions,
                    interlace_seen, decision, ret, totals, summary, leftovers >>

\* 223-225: convert failed
ResizeFails ==
    /\ Fault
    /\ pc = "resize"
    /\ calls' = Append(calls, Call("resize", 0, extracted_path, FALSE))
    /\ ret' = Return(0, 0, Len(flac_files))
    /\ pc' = "finally"
    /\ UNCHANGED << eavars, lib, orig, settled, mainvars, locals, totals,
                    summary, leftovers >>

(* ------------------ process_album_directory: embed -------------------- *)
\* NextTrack leaving the loop at the first track that failed
NextTrack_StopsOnError(p, e) ==
    /\ processed' = p
    /\ errors' = e
    /\ t' = t + 1
    /\ IF t + 1 > Len(flac_files) \/ e > errors
       THEN /\ ret' = Return(p, 0, e)
            /\ pc' = "finally"
       ELSE /\ pc' = "remove"
            /\ UNCHANGED ret

\* the for loop 231 moves to the next track, or 247-250 after the last one
NextTrack(p, e) ==
    /\ processed' = p
    /\ errors' = e
    /\ t' = t + 1
    /\ IF t + 1 > Len(flac_files)
       THEN /\ ret' = Return(p, 0, e)
            /\ pc' = "finally"
       ELSE /\ pc' = "remove"
            /\ UNCHANGED ret

SetArt(album, track, art) ==
    [lib EXCEPT ![album][track].art = art]

\* 233: metaflac --remove --block-type=PICTURE succeeded
RemoveOk ==
    /\ pc = "remove"
    /\ lib' = SetArt(idx, flac_files[t], NoArt)
    /\ calls' = Append(calls, Call("remove", flac_files[t], NoFile, TRUE))
    /\ pc' = "embed"
    /\ UNCHANGED << eavars, faults, orig, settled, mainvars, locals, ret,
                    totals, summary, leftovers >>

\* RemoveFails without the continue of line 236
RemoveFails_FallsThrough ==
    /\ Fault
    /\ pc = "remove"
    /\ calls' = Append(calls, Call("remove", flac_files[t], NoFile, FALSE))
    /\ errors' = errors + 1
    /\ pc' = "embed"
    /\ UNCHANGED << eavars, lib, orig, settled, mainvars, flac_files, t,
                    temp_dir, extracted_path, resized_path, dimensions,
                    interlace_seen, decision, processed, ret, totals, summary,
                    leftovers >>

\* 233-236: removal failed, the track is counted and skipped
RemoveFails ==
    /\ Fault
    /\ pc = "remove"
    /\ calls' = Append(calls, Call("remove", flac_files[t], NoFile, FALSE))
    /\ NextTrack(processed, errors + 1)
    /\ UNCHANGED << eavars, lib, orig, settled, mainvars, flac_files,
                    temp_dir, extracted_path, resized_path, dimensions,
                    interlace_seen, decision, totals, summary, leftovers >>

\* EmbedOk with the resize done inside the loop, once per track
EmbedOk_ResizesPerTrack ==
    /\ pc = "embed"
    /\ lib' = SetArt(idx, flac_files[t], ResizeToBaseline(extracted_path))
    /\ calls' = Append(Append(calls, Call("resize", 0, extracted_path, TRUE)),
                       Call("embed", flac_files[t],
                            ResizeToBaseline(extracted_path), TRUE))
    /\ NextTrack(processed + 1, errors)
    /\ UNCHANGED << eavars, faults, orig, settled, mainvars, flac_files,
                    temp_dir, extracted_path, resized_path, dimensions,
                    interlace_seen, decision, totals, summary, leftovers >>

\* 239, 244-245: metaflac --import-picture-from=resized.jpg succeeded
EmbedOk ==
    /\ pc = "embed"
    /\ lib' = SetArt(idx, flac_files[t], resized_path)
    /\ calls' = Append(calls, Call("embed", flac_files[t], resized_path, TRUE))
    /\ NextTrack(processed + 1, errors)
    /\ UNCHANGED << eavars, faults, orig, settled, mainvars, flac_files,
                    temp_dir, extracted_path, resized_path, dimensions,
                    interlace_seen, decision, totals, summary, leftovers >>

\* 239-242: import failed
EmbedFails ==
    /\ Fault
    /\ pc = "embed"
    /\ calls' = Append(calls, Call("embed", flac_files[t], resized_path, FALSE))
    /\ NextTrack(processed, errors + 1)
    /\ UNCHANGED << eavars, lib, orig, settled, mainvars, flac_files,
                    temp_dir, extracted_path, resized_path, dimensions,
                    interlace_seen, decision, totals, summary, leftovers >>

(* ----------------- process_album_directory: finally ------------------- *)
\* 254: extracted_path.exists() is False
NoExtractedFile ==
    /\ pc = "finally"
    /\ extracted_path = NoFile
    /\ pc' = "finally_resized"
    /\ UNCHANGED << eavars, faults, lib, orig, settled, mainvars, locals, ret,
                    totals, summary, leftovers, calls >>

\* 254-255: the extracted picture is deleted
UnlinkExtractedOk ==
    /\ pc = "finally"
    /\ extracted_path # NoFile
    /\ extracted_path' = NoFile
    /\ pc' = "finally_resized"
    /\ UNCHANGED << eavars, faults, lib, orig, settled, mainvars, flac_files,
                    t, temp_dir, resized_path, dimensions, interlace_seen,
                    decision, processed, errors, ret, totals, summary,
                    leftovers, calls >>

\* 255: unlink raises OSError; nothing in the finally block catches it, so
\* it leaves process_album_directory in place of the pending outcome
UnlinkExtractedRaises ==
    /\ Fault
    /\ pc = "finally"
    /\ extracted_path # NoFile
    /\ ret' = Raise
    /\ pc' = "tally"
    /\ UNCHANGED << eavars, lib, orig, settled, mainvars, locals, totals,
                    summary, leftovers, calls >>

\* 256: resized_path.exists() is False
NoResizedFile ==
    /\ pc = "finally_resized"
    /\ resized_path = NoFile
    /\ pc' = "finally_rmdir"
    /\ UNCHANGED << eavars, faults, lib, orig, settled, mainvars, locals, ret,
                    totals, summary, leftovers, calls >>

\* 256-257: the resized picture is deleted
UnlinkResizedOk ==
    /\ pc = "finally_resized"
    /\ resized_path # NoFile
    /\ resized_path' = NoFile
    /\ pc' = "finally_rmdir"
    /\ UNCHANGED << eavars, faults, lib, orig, settled, mainvars, flac_files,
                    t, temp_dir, extracted_path, dimensions, interlace_seen,
                    decision, processed, errors, ret, totals, summary,
                    leftovers, calls >>

\* 257: unlink raises OSError
UnlinkResizedRaises ==
    /\ Fault
    /\ pc = "finally_resized"
    /\ resized_path # NoFile
    /\ ret' = Raise
    /\ pc' = "tally"
    /\ UNCHANGED << eavars, lib, orig, settled, mainvars, locals, totals,
                    summary, leftovers, calls >>

\* 258-259: the temporary directory is removed
RmdirOk ==
    /\ pc = "finally_rmdir"
    /\ temp_dir' = FALSE
    /\ pc' = "tally"
    /\ UNCHANGED << eavars, faults, lib, orig, settled, mainvars, flac_files,
                    t, extracted_path, resized_path, dimensions,
                    interlace_seen, decision, processed, errors, ret, totals,
                    summary, leftovers, calls >>

\* 258-261: os.rmdir raises OSError, which is swallowed
RmdirFails ==
    /\ Fault
    /\ pc = "finally_rmdir"
    /\ pc' = "tally"
    /\ UNCHANGED << eavars, lib, orig, settled, mainvars, locals, ret, totals,
                    summary, leftovers, calls >>

(* ------------------------- main: the loops ---------------------------- *)
\* the temporary files that exist when process_album_directory is left
Remaining ==
    { f \in {"extracted", "resized", "temp_dir"} :
        \/ f = "extracted" /\ extracted_path # NoFile
        \/ f = "resized" /\ resized_path # NoFile
        \/ f = "temp_dir" /\ temp_dir }

\* control returns to the for loop of main: the frame of
\* process_album_directory is gone, its files are what the finally left
LeaveAlbum ==
    /\ leftovers' = leftovers \cup Remaining
    /\ settled' = IF \/ decision = "skip_compliant"
                     \/ \E i \in 1..Len(calls) :
                           /\ calls[i].op = "embed"
                           /\ calls[i].ok
                           /\ calls[i].track = flac_files[1]
                  THEN settled \cup {idx}
                  ELSE settled \ {idx}
    /\ flac_files' = << >>
    /\ t' = 1
    /\ temp_dir' = FALSE
    /\ extracted_path' = NoFile
    /\ resized_path' = NoFile
    /\ dimensions' = << >>
    /\ interlace_seen' = "notrun"
    /\ decision' = "none"
    /\ processed' = 0
    /\ errors' = 0
    /\ ret' = NoRet
    /\ calls' = << >>
    /\ idx' = idx + 1
    /\ pc' = "loop"

\* 304-307 in the first loop, 340-341 in the loop after the summary
TallyReturn ==
    /\ pc = "tally"
    /\ ret.kind = "return"
    /\ IF phase = "first"
       THEN /\ total_processed' = total_processed + ret.p
            /\ total_skipped' = total_skipped + ret.s
            /\ total_errors' = total_errors + ret.e
       ELSE /\ total_processed' = total_processed + ret.p
            /\ UNCHANGED << total_skipped, total_errors >>
    /\ LeaveAlbum
    /\ UNCHANGED << eavars, faults, lib, orig, run, dry_run, phase, summary >>

\* 308-312 in the first loop, 342-343 in the loop after the summary
TallyException ==
    /\ pc = "tally"
    /\ ret.kind = "raise"
    /\ IF phase = "first"
       THEN /\ total_errors' = total_errors + Len(GlobFlac(idx))
            /\ UNCHANGED << total_processed, total_skipped >>
       ELSE UNCHANGED totals
    /\ LeaveAlbum
    /\ UNCHANGED << eavars, faults, lib, orig, run, dry_run, phase, summary >>

\* PrintSummary going on to the loop 336 without the prompt of 327-333
PrintSummary_SkipsPrompt ==
    /\ pc = "loop"
    /\ phase = "first"
    /\ idx > NumAlbums
    /\ summary' = << total_processed, total_skipped, total_errors >>
    /\ IF dry_run
       THEN /\ phase' = "commit"
            /\ idx' = 1
            /\ total_processed' = 0
            /\ pc' = "loop"
       ELSE /\ pc' = "done"
            /\ UNCHANGED << phase, idx, total_processed >>
    /\ UNCHANGED << eavars, faults, lib, orig, settled, run, dry_run, locals,
                    ret, total_skipped, total_errors, leftovers, calls >>

\* 314-325: the first loop is over, the summary is printed
PrintSummary ==
    /\ pc = "loop"
    /\ phase = "first"
    /\ idx > NumAlbums
    /\ summary' = << total_processed, total_skipped, total_errors >>
    /\ pc' = IF dry_run THEN "proceed_prompt" ELSE "done"
    /\ UNCHANGED << eavars, faults, lib, orig, settled, mainvars, locals, ret,
                    totals, leftovers, calls >>

\* 327-335: the operator confirms the actual processing
ProceedYes ==
    /\ pc = "proceed_prompt"
    /\ phase' = "commit"
    /\ total_processed' = 0
    /\ idx' = 1
    /\ pc' = "loop"
    /\ UNCHANGED << eavars, faults, lib, orig, settled, run, dry_run, locals,
                    ret, total_skipped, total_errors, summary, leftovers,
                    calls >>

\* 327-333: any other answer ends main
ProceedNo ==
    /\ pc = "proceed_prompt"
    /\ pc' = "done"
    /\ UNCHANGED << eavars, faults, lib, orig, settled, mainvars, locals, ret,
                    totals, summary, leftovers, calls >>

\* 345: the loop after the summary is over
FinishCommit ==
    /\ pc = "loop"
    /\ phase = "commit"
    /\ idx > NumAlbums
    /\ pc' = "done"
    /\ UNCHANGED << eavars, faults, lib, orig, settled, mainvars, locals, ret,
                    totals, summary, leftovers, calls >>

\* the script is started again on the same directory
RunAgain ==
    /\ pc = "done"
    /\ run < MaxRuns
    /\ run' = run + 1
    /\ UNCHANGED faults
    /\ orig' = lib
    /\ dry_run' = FALSE
    /\ phase' = "first"
    /\ idx' = 1
    /\ total_processed' = 0
    /\ total_skipped' = 0
    /\ total_errors' = 0
    /\ summary' = << >>
    /\ pc' = "prompt"
    /\ UNCHANGED << eavars, lib, settled, locals, ret, leftovers, calls >>

Next ==
    \/ AnswerDryRunPrompt
    \/ EnterAlbum
    \/ EnterAlbumNoFiles
    \/ ExtractOk
    \/ ExtractNoPicture
    \/ ExtractFails
    \/ DimensionsKnown
    \/ DimensionsUnknown
    \/ DimensionsRaises
    \/ BaselineChecked
    \/ BaselineCheckFails
    \/ ResizeOk
    \/ ResizeFails
    \/ RemoveOk
    \/ RemoveFails
    \/ EmbedOk
    \/ EmbedFails
    \/ NoExtractedFile
    \/ UnlinkExtractedOk
    \/ UnlinkExtractedRaises
    \/ NoResizedFile
    \/ UnlinkResizedOk
    \/ UnlinkResizedRaises
    \/ RmdirOk
    \/ RmdirFails
    \/ TallyReturn
    \/ TallyException
    \/ PrintSummary
    \/ ProceedYes
    \/ ProceedNo
    \/ FinishCommit

Spec == Init /\ [][Next]_vars

\* Two executions in a row on a directory whose first album is any album and
\* whose other albums hold one ".Flac" track each.
InitTwice ==
    /\ Init
    /\ \A a \in Albums \ {1} :
          lib[a] = << [ext |-> "Flac", art |-> Oversized] >>

NextTwice == Next \/ RunAgain

SpecTwice == InitTwice /\ [][NextTwice]_vars

(* ====================================================================== *)
(* embed-art.py                                                           *)
(* ====================================================================== *)
\* the state of shrink-flac-embedded-art.py apart from the directory
shrinkvars == << orig, settled, run, pc, dry_run, phase, idx, flac_files, t,
                 temp_dir, extracted_path, resized_path, dimensions,
                 interlace_seen, decision, processed, errors, ret,
                 total_processed, total_skipped, total_errors, summary,
                 leftovers, calls >>

\* the cover candidates of lines 151-162 by what ensure_baseline_jpeg makes
\* of them: suffix .png, a progressive .jpg, a baseline .jpg
CoverKinds == {"png", "progressive_jpg", "baseline_jpg"}

\* the picture that metaflac imports from the cover or from its conversion
CoverArt(kind, path) ==
    [w |-> 500, h |-> 500,
     il |-> IF path = "temp" \/ kind # "progressive_jpg" THEN "None" ELSE "JPEG"]

\* 146-182 once the loop 142-144 is over with the list fwa
AfterArtCheck(fwa) ==
    IF fwa = << >>
    THEN /\ ea_pc' = "loop"
         /\ ea_idx' = ea_idx + 1
         /\ ea_k' = 1
    ELSE /\ ea_pc' = IF cover[ea_idx] = "none" THEN "log_all" ELSE "ensure"
         /\ ea_k' = 1
         /\ UNCHANGED ea_idx

\* 142-144 with the answer of has_embedded_art for the track at ea_k
ArtChecked(has_art) ==
    LET fwa == IF has_art THEN flacs_without_art
               ELSE Append(flacs_without_art, ea_flac_files[ea_k])
    IN  /\ flacs_without_art' = fwa
        /\ IF ea_k < Len(ea_flac_files)
           THEN /\ ea_k' = ea_k + 1
                /\ UNCHANGED << ea_pc, ea_idx >>
           ELSE AfterArtCheck(fwa)

\* main 205-206, process_album_directory 131-138: the next album directory
EA_EnterAlbum ==
    /\ ea_pc = "loop"
    /\ ea_idx <= NumAlbums
    /\ GlobFlac(ea_idx) # << >>
    /\ ea_flac_files' = GlobFlac(ea_idx)
    /\ flacs_without_art' = << >>
    /\ ea_k' = 1
    /\ ea_pc' = "check"
    /\ UNCHANGED << faults, lib, shrinkvars, cover, ea_idx, baseline_cover,
                    temp_files, embedded, log_file >>

\* main 193-197: a directory without *.flac and *.FLAC files is no album
EA_NotAnAlbum ==
    /\ ea_pc = "loop"
    /\ ea_idx <= NumAlbums
    /\ GlobFlac(ea_idx) = << >>
    /\ ea_idx' = ea_idx + 1
    /\ UNCHANGED << faults, lib, shrinkvars, cover, ea_pc, ea_flac_files,
                    ea_k, flacs_without_art, baseline_cover, temp_files,
                    embedded, log_file >>

\* has_embedded_art 12-20: metaflac --list prints the picture blocks
EA_ArtQueried ==
    /\ ea_pc = "check"
    /\ ArtChecked(lib[ea_idx][ea_flac_files[ea_k]].art # NoArt)
    /\ UNCHANGED << faults, lib, shrinkvars, cover, ea_flac_files,
                    baseline_cover, temp_files, embedded, log_file >>

\* EA_ArtQueryFails with has_embedded_art returning False on a tool error
EA_ArtQueryFails_AnswersNoArt ==
    /\ Fault
    /\ ea_pc = "check"
    /\ ArtChecked(FALSE)
    /\ UNCHANGED << lib, shrinkvars, cover, ea_flac_files, baseline_cover,
                    temp_files, embedded, log_file >>

\* has_embedded_art 21-23: metaflac failed, "return True and leave this
\* file alone"
EA_ArtQueryFails ==
    /\ Fault
    /\ ea_pc = "check"
    /\ ArtChecked(TRUE)
    /\ UNCHANGED << lib, shrinkvars, cover, ea_flac_files, baseline_cover,
                    temp_files, embedded, log_file >>

\* 179-182: no cover image, every track without art is logged
EA_LogAll ==
    /\ ea_pc = "log_all"
    /\ log_file' = log_file \o [i \in 1..Len(flacs_without_art) |->
                                  << ea_idx, flacs_without_art[i] >>]
    /\ ea_pc' = "loop"
    /\ ea_idx' = ea_idx + 1
    /\ UNCHANGED << faults, lib, shrinkvars, cover, ea_flac_files, ea_k,
                    flacs_without_art, baseline_cover, temp_files, embedded >>

\* ensure_baseline_jpeg 66-77, 101: a .jpg that identify shows not to be
\* progressive is returned as it is
EA_EnsureAsIs ==
    /\ ea_pc = "ensure"
    /\ cover[ea_idx] = "baseline_jpg"
    /\ baseline_cover' = "cover"
    /\ ea_pc' = "import"
    /\ UNCHANGED << faults, lib, shrinkvars, cover, ea_idx, ea_flac_files,
                    ea_k, flacs_without_art, temp_files, embedded, log_file >>

\* ensure_baseline_jpeg 70-76, 98-101: identify fails on a .jpg, the cover
\* is returned as it is
EA_EnsureIdentifyFails ==
    /\ Fault
    /\ ea_pc = "ensure"
    /\ cover[ea_idx] \in {"baseline_jpg", "progressive_jpg"}
    /\ baseline_cover' = "cover"
    /\ ea_pc' = "import"
    /\ UNCHANGED << lib, shrinkvars, cover, ea_idx, ea_flac_files, ea_k,
                    flacs_without_art, temp_files, embedded, log_file >>

\* ensure_baseline_jpeg 40-60 (.png) and 77-97 (progressive .jpg): mkstemp
\* creates the file, convert writes the baseline JPEG into it
EA_EnsureConverted ==
    /\ ea_pc = "ensure"
    /\ cover[ea_idx] \in {"png", "progressive_jpg"}
    /\ temp_files' = temp_files + 1
    /\ baseline_cover' = "temp"
    /\ ea_pc' = "import"
    /\ UNCHANGED << faults, lib, shrinkvars, cover, ea_idx, ea_flac_files,
                    ea_k, flacs_without_art, embedded, log_file >>

\* ensure_baseline_jpeg 61-63 and 98-101: convert fails after mkstemp made
\* the file; the cover is returned, the file stays
EA_EnsureConvertFails ==
    /\ Fault
    /\ ea_pc = "ensure"
    /\ cover[ea_idx] \in {"png", "progressive_jpg"}
    /\ temp_files' = temp_files + 1
    /\ baseline_cover' = "cover"
    /\ ea_pc' = "import"
    /\ UNCHANGED << lib, shrinkvars, cover, ea_idx, ea_flac_files, ea_k,
                    flacs_without_art, embedded, log_file >>

\* embed_cover 109-119: metaflac imported the picture
EA_ImportOk ==
    /\ ea_pc = "import"
    /\ lib' = SetArt(ea_idx, flacs_without_art[ea_k],
                     CoverArt(cover[ea_idx], baseline_cover))
    /\ embedded' = "yes"
    /\ ea_pc' = "cleanup"
    /\ UNCHANGED << faults, shrinkvars, cover, ea_idx, ea_flac_files, ea_k,
                    flacs_without_art, baseline_cover, temp_files, log_file >>

\* embed_cover 120-122: the import failed
EA_ImportFails ==
    /\ Fault
    /\ ea_pc = "import"
    /\ embedded' = "no"
    /\ ea_pc' = "cleanup"
    /\ UNCHANGED << lib, shrinkvars, cover, ea_idx, ea_flac_files, ea_k,
                    flacs_without_art, baseline_cover, temp_files, log_file >>

\* 174-178 with the value embed_cover returned, then the next track of the
\* loop 173 or the next album
EmbedCoverReturns ==
    /\ log_file' = IF embedded = "yes" THEN log_file
                   ELSE Append(log_file, << ea_idx, flacs_without_art[ea_k] >>)
    /\ embedded' = ""
    /\ baseline_cover' = "cover"
    /\ IF ea_k < Len(flacs_without_art)
       THEN /\ ea_k' = ea_k + 1
            /\ ea_pc' = "ensure"
            /\ UNCHANGED ea_idx
       ELSE /\ ea_k' = 1
            /\ ea_pc' = "loop"
            /\ ea_idx' = ea_idx + 1

\* embed_cover 123-125: no temporary file was handed back
EA_NothingToClean ==
    /\ ea_pc = "cleanup"
    /\ baseline_cover = "cover"
    /\ EmbedCoverReturns
    /\ UNCHANGED << faults, lib, shrinkvars, cover, ea_flac_files,
                    flacs_without_art, temp_files >>

\* embed_cover 123-126: the temporary file is deleted
EA_UnlinkTempOk ==
    /\ ea_pc = "cleanup"
    /\ baseline_cover = "temp"
    /\ temp_files' = temp_files - 1
    /\ EmbedCoverReturns
    /\ UNCHANGED << faults, lib, shrinkvars, cover, ea_flac_files,
                    flacs_without_art >>

\* embed_cover 126: unlink raises OSError; neither process_album_directory
\* 173-178 nor main 201-206 catches it, the script ends with a traceback
EA_UnlinkTempRaises ==
    /\ Fault
    /\ ea_pc = "cleanup"
    /\ baseline_cover = "temp"
    /\ ea_pc' = "aborted"
    /\ UNCHANGED << lib, shrinkvars, cover, ea_idx, ea_flac_files, ea_k,
                    flacs_without_art, baseline_cover, temp_files, embedded,
                    log_file >>

\* main 205-208: every album directory was visited, "Done!" is printed
EA_Done ==
    /\ ea_pc = "loop"
    /\ ea_idx > NumAlbums
    /\ ea_pc' = "done"
    /\ UNCHANGED << faults, lib, shrinkvars, cover, ea_idx, ea_flac_files,
                    ea_k, flacs_without_art, baseline_cover, temp_files,
                    embedded, log_file >>

\* a directory for embed-art.py: tracks with and without art, and per album
\* the cover image found by lines 163-168, if any
InitEmbedArt ==
    /\ lib \in [Albums -> AlbumContents]
    /\ cover \in [Albums -> CoverKinds \cup {"none"}]
    /\ ShrinkStart
    /\ EmbedArtStart

NextEmbedArt ==
    \/ EA_EnterAlbum
    \/ EA_NotAnAlbum
    \/ EA_ArtQueried
    \/ EA_ArtQueryFails
    \/ EA_LogAll
    \/ EA_EnsureAsIs
    \/ EA_EnsureIdentifyFails
    \/ EA_EnsureConverted
    \/ EA_EnsureConvertFails
    \/ EA_ImportOk
    \/ EA_ImportFails
    \/ EA_NothingToClean
    \/ EA_UnlinkTempOk
    \/ EA_UnlinkTempRaises
    \/ EA_Done

SpecEmbedArt == InitEmbedArt /\ [][NextEmbedArt]_vars

\* Every call of the scripts blocks until the tool or the operator answers,
\* so a run that can take a step takes one.
FairSpec == Spec /\ WF_vars(Next)

\* under FairSpec the run of shrink-flac-embedded-art.py prints its summary
ShrinkReachesSummary == <>(summary # << >>)

(* ====================================================================== *)
(* Properties of shrink-flac-embedded-art                                 *)
(* ====================================================================== *)
\* positions of the calls of one tool in the log of the current album
CallsOf(op) == { i \in 1..Len(calls) : calls[i].op = op }
CallsOn(op, track) == { i \in CallsOf(op) : calls[i].track = track }
OkCalls(op) == { i \in CallsOf(op) : calls[i].ok }
FailedCalls(op) == { i \in CallsOf(op) : ~calls[i].ok }

\* process_album_directory has a track list and has not yet been left
InAlbum == pc \notin {"prompt", "loop", "proceed_prompt", "done"}
\* the body of the try block is over: the finally block runs, or main tallies
AlbumOver == pc \in {"finally", "finally_resized", "finally_rmdir", "tally"}

ResizeSucceeded == \E i \in CallsOf("resize") : calls[i].ok
ResizeFailed == \E i \in CallsOf("resize") : ~calls[i].ok

\* what the first loop of main adds to the totals for the album: the triple
\* returned (304-307), or every globbed file as an error (308-312)
AlbumOutcome ==
    IF ret.kind = "return"
    THEN << ret.p, ret.s, ret.e >>
    ELSE << 0, 0, Len(GlobFlac(idx)) >>

\* C1: in a real (not dry-run) call that decided to normalize, the picture is
\* resized exactly once for the album, whatever the number of tracks, and
\* when the resize succeeded every track gets one removal attempt, gets an
\* import attempt when its removal succeeded, and every import uses the one
\* file that the single resize wrote.
C1_ResizeOncePerAlbum ==
    /\ Cardinality(CallsOf("resize")) <= 1
    /\ (InAlbum /\ CallsOf("remove") \cup CallsOf("embed") # {})
          => (Cardinality(CallsOf("resize")) = 1 /\ calls[1].op = "resize")
    /\ (AlbumOver /\ decision = "normalize" /\ ~DryRunParam)
          => /\ Cardinality(CallsOf("resize")) = 1
             /\ calls[1].op = "resize"
             /\ calls[1].ok =>
                  \A i \in 1..Len(flac_files) :
                     /\ Cardinality(CallsOn("remove", flac_files[i])) = 1
                     /\ \A r \in CallsOn("remove", flac_files[i]) :
                           Cardinality(CallsOn("embed", flac_files[i]))
                              = IF calls[r].ok THEN 1 ELSE 0
             /\ \A e \in CallsOf("embed") :
                   calls[e].img = ResizeToBaseline(calls[1].img)

\* C1 witness: a two-track album was normalized with one resize and both
\* tracks were given the resized picture
C1_Witness ==
    /\ pc = "tally"
    /\ Len(flac_files) = 2
    /\ Cardinality(CallsOf("resize")) = 1
    /\ Cardinality(OkCalls("embed")) = 2

\* C2: while the dry-run (plan) phase runs, no removal, import or resize has
\* been issued, no resized file exists and every track carries the art it
\* had when the run started.
C2_DryRunChangesNothing ==
    DryRunParam =>
        /\ calls = << >>
        /\ resized_path = NoFile
        /\ lib = orig

\* C2 witness: the plan phase is over and reported tracks it would process
C2_Witness ==
    /\ dry_run
    /\ pc = "proceed_prompt"
    /\ summary # << >>
    /\ summary[1] > 0

\* C3: when an album has been left, neither its extracted picture nor its
\* resized picture exists any more.
C3_NoTempFileOutlivesAlbum ==
    leftovers \cap {"extracted", "resized"} = {}

\* C4: when extraction from the first track fails, the album's outcome is
\* (0, N, 0) in dry-run and in real mode, and no track was touched.
C4_ExtractionFailureSkipsAlbum ==
    decision = "skip_noart" =>
        /\ extracted_path = NoFile
        /\ ret = Return(0, Len(flac_files), 0)
        /\ AlbumOutcome = << 0, Len(flac_files), 0 >>
        /\ calls = << >>
        /\ lib[idx] = orig[idx]

\* C4 witness: in real mode the extraction failed on a two-track album whose
\* first track does carry a picture, and the outcome reached main
C4_Witness ==
    /\ pc = "tally"
    /\ decision = "skip_noart"
    /\ ~DryRunParam
    /\ Len(flac_files) = 2
    /\ lib[idx][flac_files[1]].art # NoArt

\* C5: when the resize fails, the album's outcome is (0, 0, N), no removal
\* and no import is issued, and every track keeps its art.
C5_ResizeFailureErrorsAlbum ==
    ResizeFailed =>
        /\ CallsOf("remove") \cup CallsOf("embed") = {}
        /\ lib[idx] = orig[idx]
        /\ AlbumOver
        /\ AlbumOutcome = << 0, 0, Len(flac_files) >>
        /\ pc = "finally" => ret = Return(0, 0, Len(flac_files))

\* C5 witness: the resize failed on a two-track album and main tallies it
C5_Witness ==
    /\ pc = "tally"
    /\ ResizeFailed
    /\ Len(flac_files) = 2

\* C6: once the picture is extracted, the album is skipped as compliant
\* exactly when its dimensions were determined, its larger side is at most
\* 150 and identify showed it to be baseline; otherwise it is normalized.
C6_DecisionFromExtractedImage ==
    (decision \in {"skip_compliant", "normalize"} /\ extracted_path # NoFile)
        => /\ decision = "skip_compliant" <=>
                 /\ dimensions # << >>
                 /\ Max(extracted_path.w, extracted_path.h) <= 150
                 /\ interlace_seen # "error"
                 /\ extracted_path.il = "None"
           /\ decision = "normalize" <=>
                 \/ dimensions = << >>
                 \/ Max(extracted_path.w, extracted_path.h) > 150
                 \/ interlace_seen = "error"
                 \/ extracted_path.il # "None"

\* C6 witness: a picture whose larger side is exactly 150 was skipped
C6_Witness ==
    /\ decision = "skip_compliant"
    /\ extracted_path # NoFile
    /\ Max(extracted_path.w, extracted_path.h) = 150

\* the call that a step appended to the log failed
StepFailed ==
    /\ Len(calls') = Len(calls) + 1
    /\ ~calls'[Len(calls')].ok

\* C8: after a successful resize, a failed removal or import on a track is
\* followed by the removal attempt on the next track of the same album, or,
\* after the last track, by the normal return of the tallied counts; and
\* whatever happened in an album, main goes on to enter the next one.
C8_FailureStopsNeitherAlbumNorBatch ==
    /\ [][ /\ (pc \in {"remove", "embed"} /\ StepFailed)
                => IF t < Len(flac_files)
                   THEN /\ pc' = "remove"
                        /\ t' = t + 1
                        /\ idx' = idx
                        /\ flac_files' = flac_files
                   ELSE /\ pc' = "finally"
                        /\ ret'.kind = "return"
           /\ pc = "tally" => (pc' = "loop" /\ idx' = idx + 1)
           /\ (pc = "loop" /\ idx <= NumAlbums)
                => (idx' = idx /\ pc' \in {"extract", "tally"}) ]_vars
    /\ [](pc \in {"remove", "embed"} => t \in 1..Len(flac_files))
    /\ []((pc = "loop" /\ idx <= NumAlbums)
             => ENABLED (EnterAlbum \/ EnterAlbumNoFiles))

\* C8 witness: the first track of the second album failed and its second
\* track is being attempted, after the first album ended with one track
\* processed and one track failed
C8_Witness ==
    /\ phase = "first"
    /\ idx = 2
    /\ pc = "remove"
    /\ t = 2
    /\ \E i \in FailedCalls("remove") \cup FailedCalls("embed") :
          calls[i].track = flac_files[1]
    /\ total_processed = 1
    /\ total_errors = 1

\* C9: an import is issued only right after the successful removal on the
\* same track; processed counts exactly the tracks whose removal and import
\* both succeeded, errors counts every other attempted track exactly once.
C9_TwoStepsPerTrack ==
    (InAlbum /\ ResizeSucceeded) =>
        /\ \A e \in CallsOf("embed") :
              /\ e > 1
              /\ calls[e - 1].op = "remove"
              /\ calls[e - 1].ok
              /\ calls[e - 1].track = calls[e].track
        /\ processed = Cardinality(OkCalls("embed"))
        /\ errors = Cardinality(FailedCalls("remove") \cup FailedCalls("embed"))
        /\ \A i \in 1..Len(flac_files) :
              LET failed == { c \in FailedCalls("remove") \cup FailedCalls("embed") :
                                calls[c].track = flac_files[i] }
                  done == { c \in OkCalls("embed") : calls[c].track = flac_files[i] }
              IN  /\ Cardinality(failed) + Cardinality(done) <= 1
                  /\ done # {} =>
                        \E r \in OkCalls("remove") : calls[r].track = flac_files[i]
        /\ pc = "remove" => processed + errors = t - 1
        /\ AlbumOver => processed + errors = Len(flac_files)
        /\ (AlbumOver /\ ret.kind = "return") => ret = Return(processed, 0, errors)

\* C9 witness: of two tracks one was processed and on the other the removal
\* succeeded and the import failed
C9_Witness ==
    /\ pc = "tally"
    /\ processed = 1
    /\ errors = 1
    /\ FailedCalls("embed") # {}

C10_NoFailureEndsTheRun ==
    /\ ea_pc # "aborted"
    /\ ea_pc = "done" => ea_idx > NumAlbums
    /\ pc = "done" => (summary # << >> /\ idx > NumAlbums)

\* the finally block 252-261 is running
InCleanup == pc \in {"finally", "finally_resized", "finally_rmdir"}

\* C11: no step of the cleanup of an album's temporary files changes the
\* outcome that main tallies for the album: the pending return value stays
\* what the body of process_album_directory produced, and no exception takes
\* its place.
C11_CleanupKeepsOutcome ==
    [][InCleanup => (ret' = ret /\ AlbumOutcome' = AlbumOutcome)]_vars

\* the extracted picture fits the bound but was not seen to be baseline:
\* the branch of line 210
FitsButNotBaseline ==
    /\ decision = "normalize"
    /\ dimensions # << >>
    /\ Max(dimensions[1], dimensions[2]) <= PolicyBound
    /\ interlace_seen # "notrun"

\* C12: when the extracted picture fits the 150 bound and is not baseline, it
\* is re-encoded without being resized: the file written for the album has
\* the width and height of the extracted picture and is baseline.
C12_ConvertOnlyKeepsSize ==
    (FitsButNotBaseline /\ resized_path # NoFile)
        => /\ resized_path.w = extracted_path.w
           /\ resized_path.h = extracted_path.h
           /\ resized_path.il = "None"

(* ====================================================================== *)
(* Properties of embed-art                                                *)
(* ====================================================================== *)
\* embed-art's process_album_directory is working on the album ea_idx
EA_InAlbum == ea_pc \in {"check", "log_all", "ensure", "import", "cleanup",
                         "aborted"}

\* the tracks that has_embedded_art answered False for
WithoutArt == { flacs_without_art[i] : i \in 1..Len(flacs_without_art) }

\* the lines of the log as a set of << album, track >>
Logged == { log_file[i] : i \in 1..Len(log_file) }

\* C13: a track is put in the list of tracks lacking art only when the query
\* succeeded and showed no picture, so a track whose query failed, like
\* every track answered "has art", is never in that list; and only tracks of
\* that list are given a picture or written to the log.
C13_ArtAnswerLeavesTrackAlone ==
    /\ [](EA_InAlbum =>
            \A tr \in WithoutArt : orig[ea_idx][tr].art = NoArt)
    /\ [](\A a \in Albums : \A i \in 1..Len(lib[a]) :
            /\ lib[a][i] # orig[a][i] => orig[a][i].art = NoArt
            /\ << a, i >> \in Logged =>
                  (orig[a][i].art = NoArt /\ lib[a][i] = orig[a][i]))
    /\ [][ /\ \A a \in Albums : \A i \in 1..Len(lib[a]) :
                lib'[a][i] # lib[a][i] => (a = ea_idx /\ i \in WithoutArt)
           /\ \A e \in Logged' \ Logged :
                (e[1] = ea_idx /\ e[2] \in WithoutArt)
           /\ ea_pc \notin {"check", "loop"}
                => flacs_without_art' = flacs_without_art ]_vars

\* C13 witness: the query failed on the first of two tracks without art (it
\* lacks art and is not in the list), and the album's other track was given
\* the cover while the first was left as it was and not logged
C13_Witness ==
    /\ ea_pc = "cleanup"
    /\ Len(ea_flac_files) = 2
    /\ flacs_without_art = << ea_flac_files[2] >>
    /\ lib[ea_idx][ea_flac_files[1]].art = NoArt
    /\ lib[ea_idx][ea_flac_files[2]].art # NoArt
    /\ Logged = {}

(* ====================================================================== *)
(* Properties of the log and the totals                                   *)
(* ====================================================================== *)
\* C14: when shrink-flac-embedded-art has finished the body of an album,
\* every track of an album skipped for lack of art, and every track whose
\* import failed, is a line of the manual-attention log.
C14_AttentionTracksAreLogged ==
    AlbumOver =>
        /\ decision = "skip_noart" =>
              \A i \in 1..Len(flac_files) : << idx, flac_files[i] >> \in Logged
        /\ \A c \in FailedCalls("embed") : << idx, calls[c].track >> \in Logged

\* C15: the totals are the sums of the per-album outcomes of the phase that
\* runs: they start at zero when a phase starts, every album left adds its
\* triple (its track count as errors when it raised) to them, and the summary
\* reports them.
C15_TotalsSumAlbumOutcomes ==
    [][ /\ pc = "tally" =>
              /\ total_processed' = total_processed + AlbumOutcome[1]
              /\ total_skipped' = total_skipped + AlbumOutcome[2]
              /\ total_errors' = total_errors + AlbumOutcome[3]
        /\ (pc \in {"prompt", "proceed_prompt"} /\ pc' = "loop") =>
              /\ total_processed' = 0
              /\ total_skipped' = 0
              /\ total_errors' = 0
        /\ summary' # summary =>
              summary' = << total_processed, total_skipped, total_errors >>
      ]_vars

(* ====================================================================== *)
(* Properties of the scan                                                 *)
(* ====================================================================== *)
\* main 272-274: the files of one directory that rglob finds with the
\* patterns "*.flac", "*.FLAC" and "*.Flac"
ScanFlac(album) ==
    SelectIdx(lib[album], "flac", 1) \o SelectIdx(lib[album], "FLAC", 1)
        \o SelectIdx(lib[album], "Flac", 1)

\* main 281-283: the parents of the files found
AlbumDirs == { a \in Albums : ScanFlac(a) # << >> }

\* main 285 and 323: len(flac_files) of the scan, "Total files"
RECURSIVE TotalFiles(_)
TotalFiles(n) == IF n = 0 THEN 0 ELSE Len(ScanFlac(n)) + TotalFiles(n - 1)

\* C16: every file that the scan of main found is in an album directory of
\* the album set and is a member of the track list that
\* process_album_directory builds for that directory.
C16_ScannedTracksAreListed ==
    /\ \A a \in Albums : \A i \in 1..Len(lib[a]) :
          lib[a][i].ext \in Exts =>
              (a \in AlbumDirs /\ \E k \in 1..Len(ScanFlac(a)) : ScanFlac(a)[k] = i)
    /\ InAlbum =>
          \A k \in 1..Len(ScanFlac(idx)) :
             \E j \in 1..Len(flac_files) : flac_files[j] = ScanFlac(idx)[k]

(* ====================================================================== *)
(* Properties of the confirmation gate                                    *)
(* ====================================================================== *)
\* C17: after a dry run was chosen, nothing is resized, removed or imported
\* and no track changes until the proceed prompt is answered yes; the loop
\* after the summary is entered only from that prompt; any other answer ends
\* main with every track as it was; and after a yes the loop starts again at
\* the first album, visits the albums in the same order up to the last one
\* and resizes only for a decision taken during that visit from a picture
\* extracted during that visit.
C17_CommitGatedOnConfirmation ==
    /\ []((dry_run /\ phase = "first") => (calls = << >> /\ lib = orig))
    /\ []((pc = "done" /\ phase = "commit") => (dry_run /\ idx > NumAlbums))
    /\ []((phase = "commit" /\ pc = "resize")
             => /\ decision = "normalize"
                /\ extracted_path = lib[idx][flac_files[1]].art)
    /\ [][ /\ (phase = "first" /\ phase' = "commit")
                => (pc = "proceed_prompt" /\ idx' = 1 /\ pc' = "loop")
           /\ (pc = "proceed_prompt" /\ phase' = "first")
                => (pc' = "done" /\ lib' = lib /\ calls' = << >>)
           /\ (phase = "commit" /\ pc = "loop" /\ idx <= NumAlbums)
                => (idx' = idx /\ pc' \in {"extract", "tally"})
           /\ (phase = "commit" /\ pc = "extract")
                => (extracted_path = NoFile /\ decision = "none")
           /\ (phase = "commit" /\ pc = "tally") => idx' = idx + 1 ]_vars

\* C17 witness: after a dry run and a yes, the last album is being
\* normalized in the loop after the summary, which reported it as planned
C17_Witness ==
    /\ dry_run
    /\ phase = "commit"
    /\ idx = NumAlbums
    /\ summary # << >>
    /\ summary[1] > 0
    /\ OkCalls("embed") # {}

(* ====================================================================== *)
(* Properties of embed-art's temporary files                              *)
(* ====================================================================== *)
\* no call of embed_cover is running
EA_OutsideEmbedCover == ea_pc \in {"loop", "check", "log_all", "ensure", "done"}

\* C18: whenever embed_cover is not running, no temporary file made by
\* ensure_baseline_jpeg exists: every call has deleted what it created.
C18_EmbedCoverLeavesNoTempFile ==
    EA_OutsideEmbedCover => temp_files = 0

(* ====================================================================== *)
(* Count conservation                                                     *)
(* ====================================================================== *)
\* the sum of the three totals of main
TotalCounted == total_processed + total_skipped + total_errors

\* every normal return of process_album_directory accounts for each track of
\* its track list once, as skipped alone or as processed or errored
ReturnConservesCount ==
    (AlbumOver /\ ret.kind = "return") =>
        /\ ret.p + ret.s + ret.e = Len(flac_files)
        /\ ret.s = 0 \/ (ret.p = 0 /\ ret.e = 0)

\* C19: every normal return of process_album_directory yields a triple whose
\* sum is the number of tracks of its list, skipped never mixing with the
\* other two; and every album that returns normally in the first loop of
\* main raises the sum of the three totals by the number of its tracks that
\* the scan counted in "Total files", so that without a raising album the
\* summary's counts add up to "Total files".
C19_CountConservation ==
    /\ []ReturnConservesCount
    /\ [][(pc = "tally" /\ ret.kind = "return" /\ phase = "first")
             => TotalCounted' = TotalCounted + Len(ScanFlac(idx))]_vars
    /\ []((summary # << >> /\ faults = 0)
             => summary[1] + summary[2] + summary[3] = TotalFiles(NumAlbums))

\* main 311: the files that the two patterns of process_album_directory
\* find, summed over the album directories
RECURSIVE TotalGlobbed(_)
TotalGlobbed(n) == IF n = 0 THEN 0 ELSE Len(GlobFlac(n)) + TotalGlobbed(n - 1)

\* what does hold under Spec: counted against the track lists that
\* process_album_directory builds, every album of the first loop, returning
\* or raising, adds its number of tracks, and the summary adds up to them
GlobbedCountConservation ==
    /\ []ReturnConservesCount
    /\ [][(pc = "tally" /\ phase = "first")
             => TotalCounted' = TotalCounted + Len(GlobFlac(idx))]_vars
    /\ [](summary # << >>
             => summary[1] + summary[2] + summary[3] = TotalGlobbed(NumAlbums))

====
